---- MODULE Spec2Model ----
(***************************************************************************)
(* Model of pkg/iam/openid/jwt.go: the JWKS key store (JWKSArgs with       *)
(* PopulatePublicKey), the expiry policy (GetDefaultExpiration), the token *)
(* validator (JWT.Validate) and the configuration entry (LookupConfig).    *)
(*                                                                         *)
(* Time is held in ticks, TicksPerSec ticks to the second, so that the     *)
(* sub-second part of time.Now() that Unix() drops is present.  Strings    *)
(* that the code parses or formats are sequences of one-character strings. *)
(***************************************************************************)
EXTENDS Integers, Sequences, FiniteSets, TLC

(***************************************************************************)
(* Bounds of the model.                                                    *)
(***************************************************************************)
TicksPerSec == 2        \* resolution of the clock
Now0 == 2000            \* first clock value, in ticks
MaxTicks == 2           \* how far the clock may advance, in ticks
MaxCalls == 3           \* Validate calls made over a run
NearBound == 1          \* requested durations tried around each limit

(***************************************************************************)
(* Program constants.                                                      *)
(***************************************************************************)
DefaultExpiryMinutes == 60      \* jwt.go:122
MinExpirySecs == 900            \* jwt.go:131
MaxExpirySecs == 43200          \* jwt.go:131
ParseBase == 10                 \* jwt.go:124
FormatBase == 64                \* jwt.go:185
StatusOK == 200                 \* jwt.go:56 (http.StatusOK)

Second == TicksPerSec
Minute == 60 * Second

(***************************************************************************)
(* strconv: strings as sequences of characters.                            *)
(***************************************************************************)
Digits == <<"0", "1", "2", "3", "4", "5", "6", "7", "8", "9">>

DigitVal(c) == (CHOOSE i \in 1..Len(Digits) : Digits[i] = c) - 1

IsDigit(c) == \E i \in 1..Len(Digits) : Digits[i] = c

RECURSIVE DigitsValue(_)
DigitsValue(s) ==
    IF s = <<>> THEN 0
    ELSE DigitsValue(SubSeq(s, 1, Len(s) - 1)) * 10 + DigitVal(s[Len(s)])

\* strconv.ParseInt(s, 10, 64): an optional sign, then one or more decimal
\* digits and nothing else.  The strings of the model stay below ten digits,
\* so the int64 range error does not arise.
ParseInt(s) ==
    LET signed == s # <<>> /\ s[1] \in {"+", "-"}
        body == IF signed THEN Tail(s) ELSE s
    IN IF body = <<>> \/ \E i \in 1..Len(body) : ~IsDigit(body[i])
       THEN [ok |-> FALSE, n |-> 0]
       ELSE [ok |-> TRUE,
             n |-> IF signed /\ s[1] = "-" THEN 0 - DigitsValue(body)
                   ELSE DigitsValue(body)]

RECURSIVE FormatDigits(_, _)
FormatDigits(n, base) ==
    IF n < base THEN <<Digits[n + 1]>>
    ELSE Append(FormatDigits(n \div base, base), Digits[(n % base) + 1])

\* strconv.FormatInt(i, base): panics unless 2 <= base <= 36.  The model
\* formats with the decimal digits only, which covers base 10.
FormatInt(i, base) ==
    IF base < 2 \/ base > 36 THEN [panic |-> TRUE, s |-> <<>>]
    ELSE [panic |-> FALSE,
          s |-> IF i < 0 THEN <<"-">> \o FormatDigits(0 - i, base)
                ELSE FormatDigits(i, base)]

Itoa(n) == FormatInt(n, ParseBase).s

(***************************************************************************)
(* GetDefaultExpiration (jwt.go:121-138).  The duration is in ticks.       *)
(***************************************************************************)
ErrInvalidDuration == "ErrInvalidDuration"

\* GetDefaultExpiration with the limits themselves refused.
GetDefaultExpiration_Strict(dsecs) ==
    LET parsed == ParseInt(dsecs)
    IN IF dsecs # <<>>
       THEN IF ~parsed.ok \/ parsed.n <= MinExpirySecs \/ parsed.n >= MaxExpirySecs
            THEN [d |-> 0, err |-> ErrInvalidDuration]
            ELSE [d |-> parsed.n * Second, err |-> ""]
       ELSE [d |-> DefaultExpiryMinutes * Minute, err |-> ""]

GetDefaultExpiration(dsecs) ==
    LET defaultExpiryDuration == DefaultExpiryMinutes * Minute
        parsed == ParseInt(dsecs)
    IN IF dsecs # <<>>
       THEN IF ~parsed.ok THEN [d |-> 0, err |-> ErrInvalidDuration]
            ELSE IF parsed.n < MinExpirySecs \/ parsed.n > MaxExpirySecs
                 THEN [d |-> 0, err |-> ErrInvalidDuration]
                 ELSE [d |-> parsed.n * Second, err |-> ""]
       ELSE [d |-> defaultExpiryDuration, err |-> ""]

(***************************************************************************)
(* Values.  A JSON value of a claim is tagged; a number is held in ticks   *)
(* (n / TicksPerSec seconds), so it can carry a fraction of a second.      *)
(***************************************************************************)
Num(n) == [t |-> "num", n |-> n, s |-> <<>>]
Str(s) == [t |-> "str", n |-> 0, s |-> s]
Absent == [t |-> "absent", n |-> 0, s |-> <<>>]

\* int64(f) of a float64: truncation toward zero.
ToInt64(n) == IF n >= 0 THEN n \div TicksPerSec ELSE 0 - ((0 - n) \div TicksPerSec)

\* time.Time.Unix() of a clock value.
Unix(t) == t \div TicksPerSec

\* time.Unix(sec, 0).
TimeUnix(sec) == sec * TicksPerSec

(***************************************************************************)
(* Keys and key-set documents.  A public key is its type and the identity  *)
(* of the key pair; NoKey is the nil interface a map miss yields.          *)
(***************************************************************************)
NoKey == [kty |-> "nil", id |-> "nil"]
KeyK1 == [kty |-> "RSA", id |-> "K1"]
KeyK2 == [kty |-> "EC", id |-> "K2"]

EmptyKeys == [k \in {} |-> NoKey]

\* p.args.publicKeys[kid] (jwt.go:150): a miss yields nil, also on a nil map.
Lookup(keys, kid) == IF kid \in DOMAIN keys THEN keys[kid] ELSE NoKey

\* r.publicKeys[key.Kid] = publicKey (jwt.go:72).
Store(keys, kid, key) ==
    [k \in (DOMAIN keys) \cup {kid} |-> IF k = kid THEN key ELSE keys[k]]

\* One entry of the "keys" list of a JWKS document.
Entry(kid, kty, id) == [Kid |-> kid, Kty |-> kty, Mat |-> id]

\* JWKS entry decoding: key material comes out of the supported key types,
\* an error out of any other entry.
DecodePublicKey(e) ==
    IF e.Kty \in {"RSA", "EC"}
    THEN [err |-> "", key |-> [kty |-> e.Kty, id |-> e.Mat]]
    ELSE [err |-> "DecodeError", key |-> NoKey]

DocOld == <<Entry("k1", "RSA", "K1")>>
DocNew == <<Entry("k1", "RSA", "K1"), Entry("k2", "EC", "K2")>>
DocNext == <<Entry("k2", "EC", "K2")>>
DocBadLast == <<Entry("k2", "EC", "K2"), Entry("k1", "oct", "K1")>>
DocBadFirst == <<Entry("k1", "oct", "K1"), Entry("k2", "EC", "K2")>>
Docs == {DocOld, DocNew, DocNext, DocBadLast, DocBadFirst}

\* The whole mapping a document lists: what a refresh that runs alone and
\* to its end leaves in publicKeys.
RECURSIVE KeysOf(_)
KeysOf(doc) ==
    IF doc = <<>> THEN EmptyKeys
    ELSE LET e == doc[Len(doc)]
         IN Store(KeysOf(SubSeq(doc, 1, Len(doc) - 1)), e.Kid, DecodePublicKey(e).key)

Decodable(doc) == \A i \in 1..Len(doc) : DecodePublicKey(doc[i]).err = ""

\* What client.Get and the body decoding can yield (jwt.go:51-63): a transport
\* error, a status, a body that is or is not a JWKS document.
Response(neterr, status, wellFormed, keys) ==
    [neterr |-> neterr, StatusCode |-> status, wellFormed |-> wellFormed, Keys |-> keys]

Responses ==
    {Response(TRUE, 0, FALSE, <<>>), Response(FALSE, 503, FALSE, <<>>),
     Response(FALSE, StatusOK, FALSE, <<>>)}
    \cup {Response(FALSE, StatusOK, TRUE, d) : d \in Docs}

(***************************************************************************)
(* The jwt-go library as Validate uses it.                                 *)
(***************************************************************************)
\* jp.ValidMethods (jwt.go:143).
ValidMethods == {"RS256", "RS384", "RS512", "ES256", "ES384", "ES512"}

\* The signing methods jwt-go registers; GetSigningMethod yields nil for others.
RegisteredMethods ==
    ValidMethods \cup {"PS256", "PS384", "PS512", "HS256", "HS384", "HS512", "none"}

\* The key type a signing method's Verify accepts.
KeyTypeOf(alg) ==
    IF alg \in {"RS256", "RS384", "RS512", "PS256", "PS384", "PS512"} THEN "RSA"
    ELSE IF alg \in {"ES256", "ES384", "ES512"} THEN "EC"
    ELSE "secret"

\* A signature is the algorithm it was made with and the key pair that made it.
Sig(alg, by) == [alg |-> alg, by |-> by]

\* token.Method.Verify(signingString, signature, key): the key must have the
\* type of the method (a nil key has none) and the signature must be one the
\* key pair made with this method.
Verify(alg, sig, key) ==
    /\ key.kty = KeyTypeOf(alg)
    /\ sig = Sig(alg, key.id)

\* MapClaims.Valid(): exp, iat and nbf are checked when they are numbers and
\* not zero, against the clock in whole seconds; "" when the claims are valid.
ClaimsValid(claims, t) ==
    LET now == Unix(t)
        exp == ToInt64(claims.exp.n)
        iat == ToInt64(claims.iat.n)
        nbf == ToInt64(claims.nbf.n)
    IN IF claims.exp.t = "num" /\ exp # 0 /\ ~(now <= exp) THEN "Expired"
       ELSE IF claims.iat.t = "num" /\ iat # 0 /\ ~(now >= iat) THEN "IssuedAt"
       ELSE IF claims.nbf.t = "num" /\ nbf # 0 /\ ~(now >= nbf) THEN "NotValidYet"
       ELSE ""

\* keyFuncCallback that falls back on some key of the map when the header
\* has no kid string.
keyFuncCallback_Fallback(tok, keys) ==
    IF tok.kid.t # "str"
    THEN [err |-> "",
          key |-> IF DOMAIN keys = {} THEN NoKey ELSE keys[CHOOSE k \in DOMAIN keys : TRUE],
          looked |-> TRUE]
    ELSE [err |-> "", key |-> Lookup(keys, tok.kid.s), looked |-> TRUE]

\* keyFuncCallback (jwt.go:145-151).
keyFuncCallback(tok, keys) ==
    IF tok.kid.t # "str" THEN [err |-> "Invalid kid value", key |-> NoKey, looked |-> FALSE]
    ELSE [err |-> "", key |-> Lookup(keys, tok.kid.s), looked |-> TRUE]

\* Parser.ParseWithClaims(token, &claims, keyFunc) with the parser's list of
\* valid methods ({} for a parser that has none): the unverified parse, the
\* method check, the key function, the claims' validity and the signature.
ParseWithClaims(methods, tok, keys, t) ==
    LET kf == keyFuncCallback(tok, keys)
        verr == ClaimsValid(tok.claims, t)
        none == [err |-> "", looked |-> FALSE, key |-> NoKey, decoded |-> FALSE]
    IN IF ~tok.wellFormed THEN [none EXCEPT !.err = "Malformed"]
       ELSE IF tok.alg \notin RegisteredMethods
            THEN [none EXCEPT !.err = "Unverifiable", !.decoded = TRUE]
       ELSE IF methods # {} /\ tok.alg \notin methods
            THEN [none EXCEPT !.err = "SignatureInvalid", !.decoded = TRUE]
       ELSE IF kf.err # ""
            THEN [none EXCEPT !.err = kf.err, !.decoded = TRUE]
       ELSE [err |-> IF ~Verify(tok.alg, tok.sig, kf.key) THEN "SignatureInvalid"
                     ELSE verr,
             looked |-> TRUE, key |-> kf.key, decoded |-> TRUE]

\* expToInt64 (jwt.go:103-118).  The claims are decoded without UseNumber, so
\* a JSON number arrives as float64 and the int64 and json.Number cases get
\* no value; every other shape is the default case.
expToInt64(expI) ==
    IF expI.t = "num" THEN [expAt |-> ToInt64(expI.n), err |-> ""]
    ELSE [expAt |-> 0, err |-> ErrInvalidDuration]

(***************************************************************************)
(* Inputs.                                                                 *)
(***************************************************************************)
NowSec0 == Now0 \div TicksPerSec

\* A header value: a string, or anything else (absent, or not a string).
HeaderStr(v) == [t |-> "str", s |-> v]
NoHeader == [t |-> "absent", s |-> ""]

NoClaims == [exp |-> Absent, iat |-> Absent, nbf |-> Absent, sub |-> Absent]

\* A compact token: header {alg, kid}, payload and signature.
Tok(alg, kid, by, exp) ==
    [wellFormed |-> TRUE, alg |-> alg, kid |-> kid, sig |-> Sig(alg, by),
     claims |-> [exp |-> exp, iat |-> Absent, nbf |-> Absent,
                 sub |-> Str(<<"a", "l", "i", "c", "e">>)]]

NoToken == [wellFormed |-> FALSE, alg |-> "", kid |-> NoHeader, sig |-> Sig("", ""),
            claims |-> NoClaims]

TokMalformed == [NoToken EXCEPT !.alg = "RS256"]

Kid1 == HeaderStr("k1")
Kid2 == HeaderStr("k2")

In(secs) == Num((NowSec0 + secs) * TicksPerSec)

TokShort == Tok("RS256", Kid1, "K1", In(100))
TokRotated == Tok("ES256", Kid2, "K2", In(7200))
TokPSS == Tok("PS256", Kid1, "K1", In(7200))
TokHMAC == Tok("HS256", Kid1, "K1", In(7200))
TokNoKid == Tok("RS256", NoHeader, "K1", In(7200))
TokExpired == Tok("RS256", Kid1, "K1", In(0 - 10))
TokEdge == Tok("RS256", Kid1, "K1", Num(Now0 + 1))
TokStrExp == Tok("RS256", Kid1, "K1", Str(Itoa(NowSec0 + 100)))
TokForged == Tok("RS256", Kid1, "attacker", In(7200))

Tokens ==
    {TokShort, TokRotated, TokPSS, TokHMAC, TokNoKid, TokExpired, TokEdge,
     TokStrExp, TokForged, TokMalformed}

Near(n) == {Itoa(m) : m \in (n - NearBound)..(n + NearBound)}

\* The requested durations Validate is called with: none, an hour, the two
\* limits and their neighbours, and a string that is no number.
Requested ==
    {<<>>, <<"a", "b", "c">>, Itoa(DefaultExpiryMinutes * 60)}
    \cup Near(MinExpirySecs) \cup Near(MaxExpirySecs)

NilURL == ""
GoodURL == "http://idp/jwks"
OtherURL == "http://other/jwks"
BadURL == "http://idp:x/jwks"

\* The URL that is set but empty: what the JSON string "" decodes to.
EmptyURL == "<empty>"

\* r.URL.String(), "" for the nil pointer as the callers guard it (jwt.go:205).
URLString(u) == IF u \in {NilURL, EmptyURL} THEN "" ELSE u

\* xnet.ParseURL: an error for a malformed URL.
ParseURL(u) ==
    [err |-> IF u \in {GoodURL, OtherURL} THEN "" ELSE "ConfigError", url |-> u]

\* A JSON text handed to UnmarshalJSON: well formed or not, and the value of
\* its "url" member (NilURL when the member is absent or null, EmptyURL for
\* the string "").
Json(wellFormed, url) == [wellFormed |-> wellFormed, url |-> url]

JsonTexts ==
    {Json(FALSE, NilURL), Json(TRUE, NilURL), Json(TRUE, EmptyURL),
     Json(TRUE, OtherURL), Json(TRUE, BadURL)}

\* json.Unmarshal(data, &sr) (jwt.go:84): the unexported fields stay zero;
\* the url member is parsed unless it is the empty string.
Unmarshal(data) ==
    IF ~data.wellFormed THEN [err |-> "SyntaxError", url |-> NilURL]
    ELSE IF data.url \in {NilURL, EmptyURL} THEN [err |-> "", url |-> data.url]
    ELSE [err |-> ParseURL(data.url).err, url |-> data.url]

\* env.Get(key, default): the environment's value when set, else the default.
EnvGet(envValue, defaultValue) == IF envValue # "" THEN envValue ELSE defaultValue

(***************************************************************************)
(* State.                                                                  *)
(***************************************************************************)
VARIABLES
    URL,            \* JWKSArgs.URL (NilURL for nil)
    closeRespFn,    \* JWKSArgs.closeRespFn is set
    transport,      \* JWKSArgs.transport is set
    publicKeys,     \* JWKSArgs.publicKeys
    phase,          \* "args", "lookup", "configured", "ready", "failed"
    now,            \* the clock time.Now() reads, in ticks
    fatal,          \* the runtime ended the process on a concurrent map access
    calls,          \* Validate calls started
    call,           \* per thread: the position and locals of its call
    dsecsIn,        \* argument of a bare GetDefaultExpiration call
    durOut          \* its result (NoResult before the call)

vars == <<URL, closeRespFn, transport, publicKeys, phase, now, fatal, calls, call,
          dsecsIn, durOut>>

pure == <<dsecsIn, durOut>>

Config == "cfg"
Validators == {"v1", "v2"}
Procs == Validators \cup {Config}

NoResult == [d |-> 0, err |-> "uncalled"]

NoLook == [flight |-> 0, alone |-> TRUE, got |-> NoKey, old |-> NoKey, new |-> NoKey]

\* A thread's locals.  perr is the error of the last parse and rerr what
\* PopulatePublicKey came back with ("none" before, "nil", an error, "panic").
\* The rest records what the call has done so far: fetch is what the request
\* met ("neterr", "status", "garbled", "doc"), old the map that the thread
\* replaced, mixed whether another thread wrote the map while this one was
\* filling it, missed whether the first lookup found no entry, hit and key
\* the outcome of the last lookup, look what that lookup met, resolved the
\* duration GetDefaultExpiration gave and readAt the last clock value that
\* the remaining time was taken from.  last tells that this thread was the
\* last to replace the map, stampAt is the clock value read at jwt.go:183,
\* rewrote whether the branch of jwt.go:185 was entered, ret the claims the
\* call returned (Nil for none), t0 the clock value the call began at and
\* prev the outcome of the thread's call before this one.
Nil == [nil |-> TRUE, claims |-> NoClaims]

Claims(c) == [nil |-> FALSE, claims |-> c]

NoPrev ==
    [called |-> FALSE, token |-> NoToken, dsecs |-> <<>>, result |-> "none",
     ret |-> Nil, refreshes |-> 0, fetch |-> "none", jwk |-> <<>>, t0 |-> 0]

NoCall ==
    [pc |-> "idle", token |-> NoToken, dsecs |-> <<>>, claims |-> NoClaims,
     valid |-> FALSE, fetch |-> "none", jwk |-> <<>>, idx |-> 0, old |-> EmptyKeys,
     mixed |-> FALSE, missed |-> FALSE,
     expAt |-> 0, dur |-> 0,
     perr |-> "", rerr |-> "none", result |-> "none", err |-> "",
     attempts |-> 0, refreshes |-> 0, lookups |-> 0, opened |-> 0, closed |-> 0,
     hit |-> FALSE, key |-> NoKey, look |-> NoLook, resolved |-> 0, readAt |-> 0,
     last |-> FALSE, stampAt |-> 0, rewrote |-> FALSE, ret |-> Nil, t0 |-> 0,
     prev |-> NoPrev]

\* The JWKSArgs a caller builds: a URL or none.  The transport and the
\* cleanup function are unexported fields that no code of the package
\* assigns, so they are nil.
Init ==
    /\ URL \in {NilURL, GoodURL}
    /\ closeRespFn = FALSE
    /\ transport = FALSE
    /\ publicKeys = EmptyKeys
    /\ phase = "args"
    /\ now = Now0
    /\ fatal = FALSE
    /\ calls = 0
    /\ call = [p \in Procs |-> NoCall]
    /\ dsecsIn = <<>>
    /\ durOut = NoResult

(***************************************************************************)
(* LookupConfig (jwt.go:203-223) and NewJWT (jwt.go:226-230).  The transport *)
(* and closeRespFn parameters of LookupConfig are not stored in args.      *)
(***************************************************************************)
\* UnmarshalJSON (jwt.go:79-96): on success the whole receiver is replaced by
\* the decoded value, whose publicKeys, transport and closeRespFn are nil.
\* The JWT that NewJWT built holds a copy of args, so the args it was built
\* from are out of its reach afterwards.
UnmarshalJSON(data) ==
    /\ ~fatal
    /\ phase \in {"args", "configured"}
    /\ LET sr == Unmarshal(data)
       IN IF sr.err # ""
          THEN UNCHANGED <<URL, closeRespFn, transport, publicKeys>>
          ELSE /\ URL' = sr.url
               /\ publicKeys' = EmptyKeys
               /\ transport' = FALSE
               /\ closeRespFn' = FALSE
    /\ UNCHANGED <<phase, now, fatal, calls, call, pure>>

LookupConfig(envValue) ==
    /\ ~fatal
    /\ phase = "args"
    /\ LET urlStr == URLString(URL)
           jwksURL == EnvGet(envValue, urlStr)
           u == ParseURL(jwksURL)
       IN IF jwksURL = ""
          THEN /\ phase' = "configured"
               /\ UNCHANGED <<URL, call>>
          ELSE IF u.err # ""
          THEN /\ phase' = "failed"
               /\ call' = [call EXCEPT ![Config].pc = "done", ![Config].err = u.err,
                                       ![Config].result = "Rejected"]
               /\ UNCHANGED URL
          ELSE /\ phase' = "lookup"
               /\ URL' = u.url
               /\ call' = [call EXCEPT ![Config].pc = "ppk_get",
                                       ![Config].refreshes = 1]
    /\ UNCHANGED <<closeRespFn, transport, publicKeys, now, fatal, calls, pure>>

NewJWT ==
    /\ ~fatal
    /\ phase \in {"args", "configured"}
    /\ phase' = "ready"
    /\ UNCHANGED <<URL, closeRespFn, transport, publicKeys, now, fatal, calls, call, pure>>

(***************************************************************************)
(* PopulatePublicKey (jwt.go:43-76), run by thread p: the configuration or *)
(* a Validate call.                                                        *)
(***************************************************************************)
\* The threads other than p that are inside PopulatePublicKey.
Refreshing(p) ==
    {q \in Procs \ {p} : call[q].pc \in {"ppk_get", "ppk_reset", "ppk_insert"}}

\* The threads other than p that have replaced the map and still fill it.
Building(p) == {q \in Procs \ {p} : call[q].pc = "ppk_insert"}

\* q's locals after p has written the map: a q that was filling the map has
\* had another thread write into it.
Overwritten(p, q) ==
    IF q \in Building(p) THEN [call[q] EXCEPT !.mixed = TRUE] ELSE call[q]

\* p's locals once PopulatePublicKey has come back with error e ("" for nil),
\* or with a panic: LookupConfig returns (jwt.go:219-222), Validate returns
\* the error or goes on to its second parse (jwt.go:156-159).
Returned(p, c, e, panicked) ==
    IF panicked THEN [c EXCEPT !.pc = "done", !.result = "Panicked", !.rerr = "panic"]
    ELSE IF e # "" THEN [c EXCEPT !.pc = "done", !.result = "Rejected", !.err = e,
                                  !.rerr = e]
    ELSE IF p = Config THEN [c EXCEPT !.pc = "done", !.result = "Accepted",
                                      !.rerr = "nil"]
    ELSE [c EXCEPT !.pc = "parse2", !.rerr = "nil"]

PhaseAfter(p, e, panicked) ==
    IF p # Config THEN phase
    ELSE IF panicked \/ e # "" THEN "failed" ELSE "configured"

\* The deferred r.closeRespFn(resp.Body) (jwt.go:55) runs as the function
\* returns e: a nil closeRespFn panics there.
Deferred(p, c, e) ==
    Returned(p, [c EXCEPT !.closed = IF closeRespFn THEN @ + 1 ELSE @], e, ~closeRespFn)

\* What client.Get(r.URL.String()) can meet: the empty URL has no scheme,
\* so the request fails before it is sent.
Answers(u) == IF u = EmptyURL THEN {r \in Responses : r.neterr} ELSE Responses

\* jwt.go:44-63: the nil-URL return, the request, the status check and the
\* decoding of the body.
PPK_Get(p) ==
    /\ ~fatal
    /\ call[p].pc = "ppk_get"
    /\ IF URL = NilURL
       THEN /\ call' = [call EXCEPT ![p] = Returned(p, call[p], "", FALSE)]
            /\ phase' = PhaseAfter(p, "", FALSE)
       ELSE \E r \in Answers(URL) :
              LET kind == IF r.neterr THEN "neterr"
                          ELSE IF r.StatusCode # StatusOK THEN "status"
                          ELSE IF ~r.wellFormed THEN "garbled" ELSE "doc"
                  c == [call[p] EXCEPT !.opened = @ + 1, !.fetch = kind]
                  e == IF r.StatusCode # StatusOK THEN "HTTPStatusError" ELSE "DecodeError"
              IN IF r.neterr
                 THEN /\ call' = [call EXCEPT ![p] =
                                   Returned(p, [@ EXCEPT !.fetch = kind], "NetworkError", FALSE)]
                      /\ phase' = PhaseAfter(p, "NetworkError", FALSE)
                 ELSE IF r.StatusCode # StatusOK \/ ~r.wellFormed
                 THEN /\ call' = [call EXCEPT ![p] = Deferred(p, c, e)]
                      /\ phase' = PhaseAfter(p, e, ~closeRespFn)
                 ELSE /\ call' = [call EXCEPT ![p] = [c EXCEPT !.pc = "ppk_reset",
                                                               !.jwk = r.Keys]]
                      /\ UNCHANGED phase
    /\ UNCHANGED <<URL, closeRespFn, transport, publicKeys, now, fatal, calls, pure>>

\* jwt.go:65: r.publicKeys = make(map[string]crypto.PublicKey).
PPK_Reset(p) ==
    /\ ~fatal
    /\ call[p].pc = "ppk_reset"
    /\ publicKeys' = EmptyKeys
    /\ call' = [q \in Procs |->
                 IF q = p THEN [call[p] EXCEPT !.pc = "ppk_insert", !.idx = 1,
                                               !.old = publicKeys, !.last = TRUE,
                                               !.mixed = (Building(p) # {})]
                 ELSE [Overwritten(p, q) EXCEPT !.last = FALSE]]
    /\ UNCHANGED <<URL, closeRespFn, transport, phase, now, fatal, calls, pure>>

\* jwt.go:66-73: one turn of the loop.
PPK_Insert(p) ==
    /\ ~fatal
    /\ call[p].pc = "ppk_insert"
    /\ call[p].idx <= Len(call[p].jwk)
    /\ LET key == call[p].jwk[call[p].idx]
           dec == DecodePublicKey(key)
       IN IF dec.err # ""
          THEN /\ call' = [call EXCEPT ![p] = Deferred(p, @, dec.err)]
               /\ phase' = PhaseAfter(p, dec.err, ~closeRespFn)
               /\ UNCHANGED publicKeys
          ELSE /\ publicKeys' = Store(publicKeys, key.Kid, dec.key)
               /\ call' = [q \in Procs |->
                            IF q = p THEN [call[p] EXCEPT !.idx = @ + 1]
                            ELSE Overwritten(p, q)]
               /\ UNCHANGED phase
    /\ UNCHANGED <<URL, closeRespFn, transport, now, fatal, calls, pure>>

\* jwt.go:75: return nil.
PPK_Return(p) ==
    /\ ~fatal
    /\ call[p].pc = "ppk_insert"
    /\ call[p].idx > Len(call[p].jwk)
    /\ call' = [call EXCEPT ![p] = Deferred(p, @, "")]
    /\ phase' = PhaseAfter(p, "", ~closeRespFn)
    /\ UNCHANGED <<URL, closeRespFn, transport, publicKeys, now, fatal, calls, pure>>

(***************************************************************************)
(* JWT.Validate (jwt.go:141-190), run by thread p.                         *)
(***************************************************************************)
ErrTokenExpired == "ErrTokenExpired"

\* What a lookup of kid by p meets: how many refreshes are in flight, the key
\* it gets, and the keys the set before and the set after the refresh hold
\* for kid (both the current set's key when no refresh has replaced the map).
LookAt(p, kid) ==
    LET b == Building(p)
        q == CHOOSE x \in b : TRUE
    IN [flight |-> Cardinality(Refreshing(p)),
        alone |-> \A x \in b : ~call[x].mixed,
        got |-> Lookup(publicKeys, kid),
        old |-> IF b = {} THEN Lookup(publicKeys, kid) ELSE Lookup(call[q].old, kid),
        new |-> IF b = {} \/ ~Decodable(call[q].jwk) THEN Lookup(publicKeys, kid)
                ELSE Lookup(KeysOf(call[q].jwk), kid)]

\* What is kept of a call that is over when the thread calls again.
Outcome(c) ==
    IF c.pc = "idle" THEN NoPrev
    ELSE [called |-> TRUE, token |-> c.token, dsecs |-> c.dsecs, result |-> c.result,
          ret |-> c.ret, refreshes |-> c.refreshes, fetch |-> c.fetch, jwk |-> c.jwk,
          t0 |-> c.t0]

Validate(p, token) ==
    /\ ~fatal
    /\ phase = "ready"
    /\ call[p].pc \in {"idle", "done"}
    /\ calls < MaxCalls
    /\ calls' = calls + 1
    /\ call' = [call EXCEPT ![p] = [NoCall EXCEPT !.pc = "parse1", !.token = token,
                                                  !.t0 = now]]
    /\ UNCHANGED <<URL, closeRespFn, transport, publicKeys, phase, now, fatal, pure>>

\* Validate called by p once more with the token of its call before, whose
\* outcome is kept beside the new call.
ValidateAgain(p) ==
    /\ ~fatal
    /\ phase = "ready"
    /\ call[p].pc = "done"
    /\ calls < MaxCalls
    /\ calls' = calls + 1
    /\ call' = [call EXCEPT ![p] = [NoCall EXCEPT !.pc = "parse1", !.token = call[p].token,
                                                  !.t0 = now, !.prev = Outcome(call[p])]]
    /\ UNCHANGED <<URL, closeRespFn, transport, publicKeys, phase, now, fatal, pure>>

\* p's locals after a ParseWithClaims of its token by a parser with the given
\* valid methods, before the error is looked at.
Parsed(p, methods) ==
    LET c == call[p]
        r == ParseWithClaims(methods, c.token, publicKeys, now)
    IN [c EXCEPT !.attempts = @ + 1,
                 !.lookups = IF r.looked THEN @ + 1 ELSE @,
                 !.claims = IF r.decoded THEN c.token.claims ELSE @,
                 !.valid = (r.err = ""),
                 !.key = r.key,
                 !.hit = r.looked /\ c.token.kid.s \in DOMAIN publicKeys,
                 !.look = IF r.looked THEN LookAt(p, c.token.kid.s) ELSE @,
                 !.perr = r.err]

\* jwt.go:142-156: jp.ParseWithClaims with the valid methods set; an error
\* leads into PopulatePublicKey.
Parse1(p) ==
    /\ ~fatal
    /\ call[p].pc = "parse1"
    /\ LET c == Parsed(p, ValidMethods)
       IN call' = [call EXCEPT ![p] =
                     IF c.perr # ""
                     THEN [c EXCEPT !.pc = "ppk_get", !.refreshes = @ + 1,
                                    !.missed = c.lookups = 1 /\ ~c.hit]
                     ELSE [c EXCEPT !.pc = "check"]]
    /\ UNCHANGED <<URL, closeRespFn, transport, publicKeys, phase, now, fatal, calls, pure>>

\* jwt.go:159-162: the package's ParseWithClaims, whose parser has no valid
\* methods set.
Parse2(p) ==
    /\ ~fatal
    /\ call[p].pc = "parse2"
    /\ LET c == Parsed(p, {})
       IN call' = [call EXCEPT ![p] =
                     IF c.perr # ""
                     THEN [c EXCEPT !.pc = "done", !.result = "Rejected", !.err = c.perr]
                     ELSE [c EXCEPT !.pc = "check"]]
    /\ UNCHANGED <<URL, closeRespFn, transport, publicKeys, phase, now, fatal, calls, pure>>

\* The comparison of jwt.go:179 turned around.
ExpiresSooner_Reversed(expAt, t, d) == TimeUnix(expAt) - t > d

\* jwt.go:179: the token's remaining time at clock value t is less than d.
ExpiresSooner(expAt, t, d) == TimeUnix(expAt) - t < d

\* Check that hands the decoded claims back beside the error.
Check_Partial(p, requested) ==
    /\ ~fatal
    /\ call[p].pc = "check"
    /\ \E d \in requested :
         LET c == call[p]
             e == expToInt64(c.claims.exp)
             g == GetDefaultExpiration(d)
             rejected == [c EXCEPT !.pc = "done", !.result = "Rejected", !.dsecs = d,
                                   !.ret = Claims(c.claims)]
         IN call' = [call EXCEPT ![p] =
               IF ~c.valid THEN [rejected EXCEPT !.err = ErrTokenExpired]
               ELSE IF e.err # "" THEN [rejected EXCEPT !.err = e.err]
               ELSE IF g.err # "" THEN [rejected EXCEPT !.err = g.err]
               ELSE [c EXCEPT !.dsecs = d, !.expAt = e.expAt, !.dur = g.d,
                              !.resolved = g.d, !.readAt = now,
                              !.pc = IF ExpiresSooner(e.expAt, now, g.d)
                                     THEN "clamp" ELSE "stamp"]]
    /\ UNCHANGED <<URL, closeRespFn, transport, publicKeys, phase, now, fatal, calls, pure>>

\* jwt.go:165-179: the Valid flag, the exp claim, the requested duration and
\* the comparison of the remaining time with it.  dsecs is first read here,
\* so the model draws the argument here.
Check(p, requested) ==
    /\ ~fatal
    /\ call[p].pc = "check"
    /\ \E d \in requested :
         LET c == call[p]
             e == expToInt64(c.claims.exp)
             g == GetDefaultExpiration(d)
             rejected == [c EXCEPT !.pc = "done", !.result = "Rejected", !.dsecs = d]
         IN call' = [call EXCEPT ![p] =
               IF ~c.valid THEN [rejected EXCEPT !.err = ErrTokenExpired]
               ELSE IF e.err # "" THEN [rejected EXCEPT !.err = e.err]
               ELSE IF g.err # "" THEN [rejected EXCEPT !.err = g.err]
               ELSE [c EXCEPT !.dsecs = d, !.expAt = e.expAt, !.dur = g.d,
                              !.resolved = g.d, !.readAt = now,
                              !.pc = IF ExpiresSooner(e.expAt, now, g.d)
                                     THEN "clamp" ELSE "stamp"]]
    /\ UNCHANGED <<URL, closeRespFn, transport, publicKeys, phase, now, fatal, calls, pure>>

\* Clamp that grants a second more than the token has left.
Clamp_Slack(p) ==
    /\ ~fatal
    /\ call[p].pc = "clamp"
    /\ call' = [call EXCEPT ![p].dur = TimeUnix(call[p].expAt) - now + Second,
                            ![p].readAt = now,
                            ![p].pc = "stamp"]
    /\ UNCHANGED <<URL, closeRespFn, transport, publicKeys, phase, now, fatal, calls, pure>>

\* jwt.go:180: the remaining time, read from the clock again.
Clamp(p) ==
    /\ ~fatal
    /\ call[p].pc = "clamp"
    /\ call' = [call EXCEPT ![p].dur = TimeUnix(call[p].expAt) - now,
                            ![p].readAt = now,
                            ![p].pc = "stamp"]
    /\ UNCHANGED <<URL, closeRespFn, transport, publicKeys, phase, now, fatal, calls, pure>>

\* jwt.go:183-188: the session's expiry, the rewrite of the exp claim when the
\* token expires before it, and the return of the claims.
Stamp(p) ==
    /\ ~fatal
    /\ call[p].pc = "stamp"
    /\ LET c == call[p]
           expiry == Unix(now + c.dur)
           f == FormatInt(c.expAt, FormatBase)
           rewritten == [c.claims EXCEPT !.exp = Str(f.s)]
           d == [c EXCEPT !.pc = "done", !.stampAt = now, !.rewrote = (c.expAt < expiry)]
       IN call' = [call EXCEPT ![p] =
             IF c.expAt < expiry
             THEN IF f.panic THEN [d EXCEPT !.result = "Panicked"]
                  ELSE [d EXCEPT !.result = "Accepted", !.claims = rewritten,
                                 !.ret = Claims(rewritten)]
             ELSE [d EXCEPT !.result = "Accepted", !.ret = Claims(c.claims)]]
    /\ UNCHANGED <<URL, closeRespFn, transport, publicKeys, phase, now, fatal, calls, pure>>

(***************************************************************************)
(* The environment: the clock, and the runtime's check of map accesses.    *)
(***************************************************************************)
\* The clock advances.  Only the steps that read it can tell when, so it is
\* let advance while some call is at such a step.
Tick ==
    /\ ~fatal
    /\ phase = "ready"
    /\ \E p \in Validators : call[p].pc \in {"parse1", "parse2", "check", "clamp", "stamp"}
    /\ now < Now0 + MaxTicks
    /\ now' = now + 1
    /\ UNCHANGED <<URL, closeRespFn, transport, publicKeys, phase, fatal, calls, call, pure>>

\* p is about to read the map by key (jwt.go:150).
Reads(p) ==
    \/ /\ call[p].pc = "parse1"
       /\ ParseWithClaims(ValidMethods, call[p].token, publicKeys, now).looked
    \/ /\ call[p].pc = "parse2"
       /\ ParseWithClaims({}, call[p].token, publicKeys, now).looked

\* p is about to write an entry of the map (jwt.go:72).
Writes(p) ==
    /\ call[p].pc = "ppk_insert"
    /\ call[p].idx <= Len(call[p].jwk)
    /\ DecodePublicKey(call[p].jwk[call[p].idx]).err = ""

\* An unsynchronised map write that meets another access of the same map is
\* a data race; one outcome is the runtime's fatal error, which ends the process.
MapRace ==
    /\ ~fatal
    /\ \E p \in Validators, q \in Validators :
         p # q /\ Writes(p) /\ (Reads(q) \/ Writes(q))
    /\ fatal' = TRUE
    /\ UNCHANGED <<URL, closeRespFn, transport, publicKeys, phase, now, calls, call, pure>>

Envs == {"", GoodURL, BadURL}

\* The tokens two concurrent callers present.
TokensConc == {TokShort, TokRotated}

Configure ==
    \/ \E data \in JsonTexts : UnmarshalJSON(data)
    \/ \E e \in Envs : LookupConfig(e)
    \/ NewJWT
    \/ PPK_Get(Config) \/ PPK_Reset(Config) \/ PPK_Insert(Config) \/ PPK_Return(Config)

Steps(p, requested) ==
    \/ PPK_Get(p) \/ PPK_Reset(p) \/ PPK_Insert(p) \/ PPK_Return(p)
    \/ Parse1(p) \/ Parse2(p) \/ Check(p, requested) \/ Clamp(p) \/ Stamp(p)

\* One caller, one Validate call after the other.
Next ==
    \/ Configure
    \/ \E t \in Tokens : Validate("v1", t)
    \/ Steps("v1", Requested)
    \/ Tick

Spec == Init /\ [][Next]_vars

\* Two callers whose Validate calls overlap; the second thread is the one
\* that starts second.
NextConc ==
    \/ Configure
    \/ \E t \in TokensConc : Validate("v1", t)
    \/ \E t \in TokensConc : call["v1"].pc # "idle" /\ Validate("v2", t)
    \/ \E p \in Validators : Steps(p, {<<>>})
    \/ MapRace

SpecConc == Init /\ [][NextConc]_vars

\* The tokens and the requested durations of a caller that presents a token
\* twice.
TokensTwice == {TokShort, TokRotated, TokEdge}

RequestedTwice == {<<>>, Itoa(DefaultExpiryMinutes * 60)}

\* One caller that validates a token and then the same token again.
NextTwice ==
    \/ Configure
    \/ \E t \in TokensTwice : Validate("v1", t)
    \/ ValidateAgain("v1")
    \/ Steps("v1", RequestedTwice)
    \/ Tick

SpecTwice == Init /\ [][NextTwice]_vars

(***************************************************************************)
(* GetDefaultExpiration on its own: the argument is drawn from strings     *)
(* built around the two limits, each with what it denotes beside it.       *)
(***************************************************************************)
LimitNumbers ==
    {0, 1, DefaultExpiryMinutes * 60}
    \cup ((MinExpirySecs - NearBound)..(MinExpirySecs + NearBound))
    \cup ((MaxExpirySecs - NearBound)..(MaxExpirySecs + NearBound))

\* A string with whether it is a base-10 integer and, if so, which.
Case(text, int, n) == [text |-> text, int |-> int, n |-> n]

DurationCases ==
    {Case(Itoa(n), TRUE, n) : n \in LimitNumbers}
    \cup {Case(<<"+">> \o Itoa(n), TRUE, n) : n \in LimitNumbers}
    \cup {Case(<<"-">> \o Itoa(n), TRUE, 0 - n) : n \in LimitNumbers}
    \cup {Case(<<"0">> \o Itoa(n), TRUE, n) : n \in LimitNumbers}
    \cup {Case(<<" ">> \o Itoa(n), FALSE, 0) : n \in LimitNumbers}
    \cup {Case(Itoa(n) \o <<"s">>, FALSE, 0) : n \in LimitNumbers}
    \cup {Case(Itoa(n) \o <<".", "0">>, FALSE, 0) : n \in LimitNumbers}
    \cup {Case(<<"a", "b", "c">>, FALSE, 0), Case(<<"-">>, FALSE, 0),
          Case(<<"+">>, FALSE, 0), Case(<<"9", "_", "0", "0">>, FALSE, 0)}

DurationStrings == {<<>>} \cup {c.text : c \in DurationCases}

InitExpiry ==
    /\ URL = NilURL
    /\ closeRespFn = FALSE
    /\ transport = FALSE
    /\ publicKeys = EmptyKeys
    /\ phase = "args"
    /\ now = Now0
    /\ fatal = FALSE
    /\ calls = 0
    /\ call = [p \in Procs |-> NoCall]
    /\ dsecsIn \in DurationStrings
    /\ durOut = NoResult

Resolve ==
    /\ durOut = NoResult
    /\ durOut' = GetDefaultExpiration(dsecsIn)
    /\ UNCHANGED <<URL, closeRespFn, transport, publicKeys, phase, now, fatal, calls,
                   call, dsecsIn>>

NextExpiry == Resolve

SpecExpiry == InitExpiry /\ [][NextExpiry]_vars

(***************************************************************************)
(* Properties.                                                             *)
(***************************************************************************)
\* What a string of DurationCases denotes.
Denotes(s) == CHOOSE c \in DurationCases : c.text = s

S900 == <<"9", "0", "0">>
S899 == <<"8", "9", "9">>
S43200 == <<"4", "3", "2", "0", "0">>
S43201 == <<"4", "3", "2", "0", "1">>

Failed == [d |-> 0, err |-> ErrInvalidDuration]

Granted(secs) == [d |-> secs * Second, err |-> ""]

\* C10: GetDefaultExpiration returns 3600 s for the empty string; for a
\* string that is a base-10 integer n it returns n seconds exactly when
\* 900 <= n <= 43200; for every other string, and for every integer outside
\* the range, it returns ErrInvalidDuration with a zero duration.
C10_Resolve ==
    durOut # NoResult =>
        /\ dsecsIn = <<>> => durOut = Granted(3600)
        /\ dsecsIn # <<>> =>
             LET c == Denotes(dsecsIn)
             IN IF c.int /\ 900 <= c.n /\ c.n <= 43200
                THEN durOut = Granted(c.n)
                ELSE durOut = Failed
        /\ dsecsIn = S900 => durOut = Granted(900)
        /\ dsecsIn = S43200 => durOut = Granted(43200)
        /\ dsecsIn \in {S899, S43201} => durOut = Failed

\* C10 witness: the upper limit itself has been asked for and granted.
C10_Witness ==
    /\ dsecsIn = S43200
    /\ durOut = Granted(43200)


Min(a, b) == IF a < b THEN a ELSE b

\* The PopulatePublicKey of the call has ended without filling the map from a
\* document: the request failed, the status was not 200, the body or an
\* entry did not decode.
RefreshFailed(c) ==
    /\ c.rerr \notin {"none", "nil"}
    /\ \/ c.fetch \in {"neterr", "status", "garbled"}
       \/ c.fetch = "doc" /\ ~Decodable(c.jwk)

\* C1: a Validate call runs PopulatePublicKey at most once and parses at
\* most twice, the second time only after a PopulatePublicKey that returned
\* nil; when the refresh fails, or the second parse fails, the call is over
\* and rejected, with nothing refreshed or parsed after.
C1_BoundedRetry ==
    \A p \in Validators :
        LET c == call[p]
        IN /\ c.refreshes <= 1
           /\ c.attempts <= 2
           /\ c.attempts = 2 => c.refreshes = 1 /\ c.rerr = "nil"
           /\ RefreshFailed(c) =>
                c.pc = "done" /\ c.result = "Rejected" /\ c.attempts = 1
           /\ (c.attempts = 2 /\ c.perr # "") =>
                c.pc = "done" /\ c.result = "Rejected" /\ c.err = c.perr

\* The document that p fetched decodes entry by entry and lists the kid of
\* p's token with the key that signed the token, for an algorithm of the
\* valid methods.
Rotated(c) ==
    /\ c.token.wellFormed
    /\ c.token.alg \in ValidMethods
    /\ c.token.kid.t = "str"
    /\ c.fetch = "doc"
    /\ Decodable(c.jwk)
    /\ \E i \in 1..Len(c.jwk) :
         /\ c.jwk[i].Kid = c.token.kid.s
         /\ c.jwk[i].Kty = KeyTypeOf(c.token.alg)
         /\ c.token.sig = Sig(c.token.alg, c.jwk[i].Mat)

\* The token has a numeric exp that lies ahead of every clock value of the run.
Unexpired(c) ==
    /\ c.token.claims.exp.t = "num"
    /\ ToInt64(c.token.claims.exp.n) > Unix(Now0 + MaxTicks)

\* C2: a call for a token that is valid but for its key, whose kid the first
\* lookup did not find and which the fetched document lists, refreshes once,
\* parses twice and ends accepted; a call whose second lookup misses as well
\* ends rejected after two parses.
C2_RotationRecovery ==
    \A p \in Validators :
        LET c == call[p]
        IN /\ (/\ c.missed /\ Rotated(c) /\ Unexpired(c)
               /\ GetDefaultExpiration(c.dsecs).err = ""
               /\ c.pc \notin {"ppk_reset", "ppk_insert"})
              => /\ c.refreshes = 1
                 /\ c.pc = "done" => c.attempts = 2 /\ c.result = "Accepted"
           /\ (c.missed /\ c.attempts = 2 /\ ~c.hit)
              => c.pc = "done" /\ c.result = "Rejected"

\* C3: a PopulatePublicKey whose request fails at the transport, or is
\* answered with a status other than 200, returns an error (HTTPStatusError
\* for the status) and leaves publicKeys as it was.
C3_FetchFailureKeepsSet ==
    [][\A p \in Procs :
         (call[p].pc = "ppk_get" /\ call'[p].fetch \in {"neterr", "status"})
         => /\ publicKeys' = publicKeys
            /\ call'[p].rerr =
                 IF call'[p].fetch = "status" THEN "HTTPStatusError" ELSE "NetworkError"]_vars

\* p's step is the exit of PopulatePublicKey on a body that is no JWKS
\* document (jwt.go:61-63) or on an entry that does not decode (jwt.go:68-71).
ExitsOnDecodeError(p) ==
    \/ call[p].pc = "ppk_get" /\ call'[p].fetch = "garbled"
    \/ /\ call[p].pc = "ppk_insert" /\ call'[p].pc = "done"
       /\ call[p].idx <= Len(call[p].jwk)

\* C4: when PopulatePublicKey leaves on a decode error, of the body or of
\* any entry of the list, publicKeys is the map held before that call.
C4_DecodeErrorKeepsSet ==
    [][\A p \in Procs :
         ExitsOnDecodeError(p)
         => publicKeys' = IF call[p].pc = "ppk_get" THEN publicKeys ELSE call[p].old]_vars

\* C5: while one refresh is in flight, a lookup by another call gets what the
\* map before the refresh or the whole map of the fetched document holds for
\* the kid.
C5_OldOrNew ==
    \A p \in Validators :
        LET l == call[p].look
        IN (l.flight = 1 /\ l.alone) => l.got \in {l.old, l.new}

\* C6: a call for a token whose alg is not one of the valid methods never
\* ends accepted, and each of its parses, the second as the first, stops at
\* the method check: the key function is not called and no key is tried.
C6_AllowList ==
    \A p \in Validators :
        LET c == call[p]
        IN (c.token.wellFormed /\ c.token.alg \notin ValidMethods)
           => /\ c.result # "Accepted"
              /\ c.lookups = 0

\* C7: a call for a token with a symmetric alg never looks a key up.
C7_NoLookupForSymmetric ==
    \A p \in Validators :
        call[p].token.alg \in {"HS256", "HS384", "HS512"} => call[p].lookups = 0

\* C8: a call ends accepted only when the lookup of its last parse found an
\* entry of publicKeys under the token's kid.
C8_AcceptedKeyResolved ==
    \A p \in Validators :
        LET c == call[p]
        IN c.result = "Accepted" =>
             /\ c.token.kid.t = "str"
             /\ c.hit
             /\ c.key # NoKey
             /\ c.attempts = 1 \/ (c.attempts = 2 /\ c.refreshes = 1)

\* C8 witness: a call has ended accepted on its first parse, whose lookup
\* found the key that an earlier call's refresh had stored.
C8_Witness ==
    LET c == call["v1"]
    IN /\ c.result = "Accepted" /\ c.attempts = 1 /\ c.refreshes = 0
       /\ c.hit /\ c.key = KeyK1 /\ c.token = TokShort

\* C9: when a call ends accepted, its effective duration is the smaller of
\* the duration GetDefaultExpiration gave for dsecs and the time from the
\* clock value read to the exp taken from the token; it exceeds neither that
\* duration nor the time to the token's own exp.  With exp 7200 s ahead and
\* "3600" requested it is 3600 s; with exp 100 s ahead and nothing requested
\* it is 100 s.
C9_EffectiveDuration ==
    \A p \in Validators :
        LET c == call[p]
            remaining == TimeUnix(c.expAt) - c.readAt
        IN c.result = "Accepted" =>
             /\ c.resolved = GetDefaultExpiration(c.dsecs).d
             /\ c.dur = Min(c.resolved, remaining)
             /\ c.dur <= c.resolved
             /\ c.dur <= c.token.claims.exp.n - c.readAt
             /\ (remaining = 7200 * Second /\ c.dsecs = Itoa(3600)) => c.dur = 3600 * Second
             /\ (remaining = 100 * Second /\ c.dsecs = <<>>) => c.dur = 100 * Second

\* C9 witness: a token with exp 100 s ahead has been accepted with nothing
\* requested, and its effective duration is 100 s.
C9_Witness ==
    LET c == call["v1"]
    IN /\ c.result = "Accepted" /\ c.dsecs = <<>>
       /\ TimeUnix(c.expAt) - c.readAt = 100 * Second
       /\ c.dur = 100 * Second /\ c.resolved = 3600 * Second

\* The second a token's exp claim denotes: a JSON number, or a string that
\* is a base-10 integer.
Denoted(exp) ==
    IF exp.t = "num" THEN [ok |-> TRUE, sec |-> ToInt64(exp.n)]
    ELSE IF exp.t = "str" THEN [ok |-> ParseInt(exp.s).ok, sec |-> ParseInt(exp.s).n]
    ELSE [ok |-> FALSE, sec |-> 0]

\* The token's exp lies ahead of every clock value of the run.
StillValid(c) ==
    /\ Denoted(c.token.claims.exp).ok
    /\ Denoted(c.token.claims.exp).sec > Unix(Now0 + MaxTicks)

\* The call has parsed once, and the lookup of that parse found the key that
\* signed the token, for an algorithm of the valid methods.
SignedByStoredKey(c) ==
    /\ c.attempts = 1
    /\ c.token.wellFormed
    /\ c.token.alg \in ValidMethods
    /\ c.hit
    /\ Verify(c.token.alg, c.token.sig, c.key)

\* C11: a call for a token that is signed with a key publicKeys holds and
\* whose exp lies ahead, made with a dsecs that GetDefaultExpiration accepts,
\* does not refresh and ends accepted with a claim set returned.
C11_ValidTokenAccepted ==
    \A p \in Validators :
        LET c == call[p]
        IN (SignedByStoredKey(c) /\ StillValid(c) /\ GetDefaultExpiration(c.dsecs).err = "")
           => /\ c.refreshes = 0
              /\ c.pc = "done" => c.result = "Accepted" /\ ~c.ret.nil

\* The claims a and b agree on every claim but exp.
SameButExp(a, b) == [a EXCEPT !.exp = Absent] = [b EXCEPT !.exp = Absent]

\* C12: a call that has gone through jwt.go:183-188 has ended accepted, also
\* when it entered the branch of jwt.go:185; the claims it returned are the
\* token's on every claim but exp, and the exp returned denotes the second
\* of the token's own exp.
C12_ExpiryReasserted ==
    \A p \in Validators :
        LET c == call[p]
        IN (c.pc = "done" /\ c.stampAt # 0)
           => /\ c.result = "Accepted"
              /\ ~c.ret.nil
              /\ SameButExp(c.ret.claims, c.token.claims)
              /\ Denoted(c.ret.claims.exp).ok
              /\ Denoted(c.ret.claims.exp).sec = ToInt64(c.token.claims.exp.n)
              /\ ~c.rewrote => c.ret.claims.exp = c.token.claims.exp

\* The call found the key of its token stored, or fetched a document that
\* lists it.
KeyAtHand(c) == c.refreshes = 0 \/ Rotated(c)

\* C13: when a thread has validated a token whose exp lies ahead and then
\* the same token again with the same dsecs, the clock standing still from
\* the start of the first call to the end of the second, and each call found
\* the token's key stored or in the document it fetched, the two calls end
\* alike and return the same claims.
C13_SameTokenSameClaims ==
    \A p \in Validators :
        LET c == call[p]
            f == c.prev
        IN (/\ f.called /\ c.pc = "done"
            /\ c.token = f.token /\ c.dsecs = f.dsecs /\ now = f.t0
            /\ StillValid(c) /\ KeyAtHand(f) /\ KeyAtHand(c))
           => /\ c.result = f.result
              /\ c.ret = f.ret

\* C14: a call that ends with an error (of PopulatePublicKey, of the second
\* parse, of the exp claim's shape or of dsecs) is over and has returned no
\* claims; claims are returned only by a call that ends accepted, without
\* an error.
C14_AllOrNothing ==
    \A p \in Validators :
        LET c == call[p]
        IN /\ c.err # "" => c.pc = "done" /\ c.result = "Rejected" /\ c.ret = Nil
           /\ c.result = "Rejected" => c.pc = "done" /\ c.err # "" /\ c.ret = Nil
           /\ ~c.ret.nil => c.pc = "done" /\ c.result = "Accepted" /\ c.err = ""
           /\ c.pc # "done" => c.ret = Nil

\* C14 witness: a call has decoded and verified its token and has then been
\* rejected for its dsecs, returning no claims.
C14_Witness ==
    LET c == call["v1"]
    IN /\ c.pc = "done" /\ c.result = "Rejected" /\ c.err = ErrInvalidDuration
       /\ c.valid /\ c.claims = c.token.claims /\ c.claims.exp.t = "num"
       /\ c.dsecs = S899 /\ c.ret = Nil

\* The token's exp is a number that every clock value of the run lies past.
Lapsed(c) ==
    /\ c.token.claims.exp.t = "num"
    /\ ToInt64(c.token.claims.exp.n) # 0
    /\ ToInt64(c.token.claims.exp.n) < Unix(Now0)

\* Every parse of the call so far has looked the kid up and found an entry,
\* and the key last found verifies the token's signature, for an algorithm
\* of the valid methods.
FoundAndVerified(c) ==
    /\ c.attempts >= 1
    /\ c.lookups = c.attempts /\ ~c.missed /\ c.hit
    /\ c.token.alg \in ValidMethods
    /\ Verify(c.token.alg, c.token.sig, c.key)

\* C15: a call for a token whose signature verifies against a stored key and
\* whose exp has passed never calls PopulatePublicKey and makes no request,
\* and ends rejected with ErrTokenExpired.
C15_ExpiredNoRefresh ==
    \A p \in Validators :
        LET c == call[p]
        IN (FoundAndVerified(c) /\ Lapsed(c))
           => /\ c.refreshes = 0
              /\ c.fetch = "none"
              /\ c.pc = "done" => c.result = "Rejected" /\ c.err = ErrTokenExpired

\* The error keyFuncCallback returns for a header without a kid string.
ErrInvalidKid == keyFuncCallback(TokNoKid, EmptyKeys).err

\* C16: a call for a well-formed token, of a valid method, whose header has
\* no kid string ends rejected with the error of keyFuncCallback, whatever
\* publicKeys holds and whatever PopulatePublicKey meets.
C16_MissingKidRejected ==
    \A p \in Validators :
        LET c == call[p]
        IN (/\ c.token.wellFormed /\ c.token.alg \in ValidMethods
            /\ c.token.kid.t # "str" /\ c.pc = "done")
           => c.result = "Rejected" /\ c.err = ErrInvalidKid

\* p's PopulatePublicKey fetched a document, stored every entry of it and
\* reached its return nil (jwt.go:75).
Installed(p) ==
    /\ call[p].fetch = "doc" /\ call[p].pc \in {"done", "parse2"}
    /\ call[p].idx > Len(call[p].jwk)

InRefresh(p) == call[p].pc \in {"ppk_get", "ppk_reset", "ppk_insert"}

\* C18: once LookupConfig has taken a URL, every PopulatePublicKey that goes
\* to the network, its own included, runs with the transport and closeRespFn
\* set, none ends in a panic, and each has closed every response body it
\* obtained exactly once by the time it is over.
C18_CleanupOnEveryExit ==
    call[Config].refreshes = 1 =>
        \A p \in Procs :
            /\ (InRefresh(p) /\ URL # NilURL) => closeRespFn /\ transport
            /\ ~InRefresh(p) => call[p].closed = call[p].opened
            /\ call[p].rerr # "panic"

\* C19: publicKeys is empty until the first Validate call; LookupConfig makes
\* no request and fails only on a malformed URL; a Validate call enters
\* PopulatePublicKey only after a parse of its own that failed.
C19_OnDemandOnly ==
    /\ calls = 0 => publicKeys = EmptyKeys
    /\ call[Config].fetch = "none"
    /\ call[Config].result \in {"Rejected", "Panicked"} => call[Config].err = "ConfigError"
    /\ \A p \in Validators :
         call[p].refreshes > 0 =>
             /\ call[p].attempts >= 1
             /\ (call[p].rerr = "none" => call[p].perr # "")

\* C20: in a call that has gone through jwt.go:183-188 the duration is at
\* most the time from the last clock value read for it to the token's exp;
\* when the clock value read at jwt.go:183 is that same value, and so when
\* the clock stood still over the whole call, expAt < expiry does not hold,
\* the branch of jwt.go:185 is not entered and the claims are returned as
\* the token carries them; the branch is entered only when the clock has
\* advanced between the two reads.
C20_RewriteNeedsClockAdvance ==
    \A p \in Validators :
        LET c == call[p]
        IN c.stampAt # 0 =>
             /\ c.dur <= TimeUnix(c.expAt) - c.readAt
             /\ c.readAt <= c.stampAt /\ c.t0 <= c.readAt
             /\ c.stampAt = c.readAt =>
                  /\ ~c.rewrote
                  /\ c.stampAt + c.dur <= TimeUnix(c.expAt)
                  /\ c.result = "Accepted" /\ c.ret = Claims(c.token.claims)
             /\ c.stampAt = c.t0 => ~c.rewrote
             /\ c.rewrote => c.stampAt > c.readAt

\* C20 witness: a call whose duration was clamped to the token's remaining
\* time has read the same clock value at jwt.go:183 and has returned the
\* claims unchanged.
C20_Witness ==
    LET c == call["v1"]
    IN /\ c.stampAt # 0 /\ c.stampAt = c.readAt
       /\ c.dur < c.resolved /\ c.dur = TimeUnix(c.expAt) - c.readAt
       /\ ~c.rewrote /\ c.result = "Accepted" /\ c.ret = Claims(c.token.claims)

====
